---- MODULE Spec2Model ----
(***************************************************************************)
(* LichessPgnParser (src/main.py): the streaming PGN parser.               *)
(*                                                                         *)
(* Text is a sequence of one-character strings.  Offsets kept in the state *)
(* are 0-based like Python's (match.start(), match.end(), file position);  *)
(* the helpers that walk a text use TLA+'s 1-based indices.                *)
(***************************************************************************)
EXTENDS Integers, Sequences, FiniteSets, TLC

\* Bounds of the model: records per file, length of a run of junk, chunk size
\* of the edited-record files, parts of a raw block.
MaxGames == 2
JunkLen == 40
BuildChunk == 250
MaxParts == 3
MaxRuns == 2

(***************************************************************************)
(* Characters and string helpers (Python str methods used by the code)     *)
(***************************************************************************)
LINESEP == "\n"
PGN_DELIM == <<"\n", "\n">>
QUOTE == "\""
LBR == "["
RBR == "]"

\* The characters the regex class \s matches.
IsSpace(c) == c \in {" ", "\t", "\n", "\r", "\f"}

Min(S) == CHOOSE x \in S : \A y \in S : x <= y
Max(S) == CHOOSE x \in S : \A y \in S : x >= y

\* s[a:] and s[:b] with Python's 0-based offsets (an offset past the end is clipped).
Drop(s, a) == SubSeq(s, a + 1, Len(s))
Take(s, b) == SubSeq(s, 1, IF b < Len(s) THEN b ELSE Len(s))

\* str.count(c) for a one-character c.
Count(s, c) == Cardinality({i \in 1..Len(s) : s[i] = c})

\* d occurs in s at the 1-based index i.
OccursAt(s, d, i) ==
    /\ i >= 1
    /\ i + Len(d) - 1 <= Len(s)
    /\ \A k \in 1..Len(d) : s[i + k - 1] = d[k]

\* Every index at which d occurs in s, in increasing order.
Occurrences(s, d) ==
    SelectSeq([i \in 1..Len(s) |-> i], LAMBDA i : OccursAt(s, d, i))

\* The parts of s from the index from on; hits[k..] are the occurrences of d
\* not yet looked at (one that overlaps the previous delimiter is skipped).
RECURSIVE SplitFrom(_, _, _, _, _)
SplitFrom(s, d, hits, k, from) ==
    IF k > Len(hits) THEN <<SubSeq(s, from, Len(s))>>
    ELSE IF hits[k] < from THEN SplitFrom(s, d, hits, k + 1, from)
    ELSE <<SubSeq(s, from, hits[k] - 1)>> \o SplitFrom(s, d, hits, k + 1, hits[k] + Len(d))

\* str.split(d): the parts between the non-overlapping occurrences of d, left to right.
Split(s, d) == SplitFrom(s, d, Occurrences(s, d), 1, 1)

StartsWith(s, c) == Len(s) >= 1 /\ s[1] = c
EndsWith(s, c) == Len(s) >= 1 /\ s[Len(s)] = c

\* header[1:-1]
Trim1(s) == SubSeq(s, 2, Len(s) - 1)

\* str.rstrip(c): drop every trailing c.
RStrip(s, c) ==
    LET keep == {i \in 1..Len(s) : s[i] # c}
    IN IF keep = {} THEN <<>> ELSE SubSeq(s, 1, Max(keep))

UpperCase == <<"A","B","C","D","E","F","G","H","I","J","K","L","M",
               "N","O","P","Q","R","S","T","U","V","W","X","Y","Z">>
LowerCase == <<"a","b","c","d","e","f","g","h","i","j","k","l","m",
               "n","o","p","q","r","s","t","u","v","w","x","y","z">>

\* str.lower()
LowerChar(c) ==
    IF \E i \in 1..26 : UpperCase[i] = c
    THEN LowerCase[CHOOSE i \in 1..26 : UpperCase[i] = c]
    ELSE c

Lower(s) == [i \in 1..Len(s) |-> LowerChar(s[i])]

(***************************************************************************)
(* pgn_pattern: (\[[^\]]+\s"[^"]+"\]\n?)+ \n{2} .*(1-0|0-1|1/2-1/2)        *)
(* matched as re does it: leftmost start, greedy with backtracking.        *)
(***************************************************************************)
Tokens == << <<"1","-","0">>, <<"0","-","1">>, <<"1","/","2","-","1","/","2">> >>

\* Length of the terminal token that starts at q, 0 when none does.
TokenAt(s, q) ==
    IF OccursAt(s, Tokens[1], q) THEN 3
    ELSE IF OccursAt(s, Tokens[2], q) THEN 3
    ELSE IF OccursAt(s, Tokens[3], q) THEN 7
    ELSE 0

\* First index >= k at which s holds the character c, Len(s) + 1 when none does.
RECURSIVE IndexOf(_, _, _)
IndexOf(s, c, k) ==
    IF k > Len(s) \/ s[k] = c THEN k ELSE IndexOf(s, c, k + 1)

\* "[^"]+"\] from the opening quote at q: the index just after the header, 0
\* when the value is empty or the closing "] is not there.
ValueEnd(s, q, k) ==
    IF k >= q + 2 /\ k + 1 <= Len(s) /\ s[k + 1] = RBR THEN k + 2 ELSE 0

\* The header ends for the name ends j = from, from - 1, ..., lo (a name end is
\* the \s before the opening quote), as a sequence.
RECURSIVE NameEnds(_, _, _)
NameEnds(s, lo, j) ==
    IF j < lo THEN <<>>
    ELSE IF IsSpace(s[j]) /\ s[j + 1] = QUOTE
              /\ ValueEnd(s, j + 1, IndexOf(s, QUOTE, j + 2)) # 0
    THEN <<ValueEnd(s, j + 1, IndexOf(s, QUOTE, j + 2))>> \o NameEnds(s, lo, j - 1)
    ELSE NameEnds(s, lo, j - 1)

\* One header \[[^\]]+\s"[^"]+"\] starting at i: the indices just after the
\* header, for every way the name can end, the longest name first.  The name
\* holds no ], so its end lies before the first ] after i.
HeaderEnds(s, i) ==
    IF ~(i <= Len(s) /\ s[i] = LBR) THEN <<>>
    ELSE NameEnds(s, i + 2, IndexOf(s, RBR, i + 1) - 2)

\* The last terminal token that starts in lo..q: the index just after it, 0
\* when there is none.
RECURSIVE LastToken(_, _, _)
LastToken(s, lo, q) ==
    IF q < lo THEN 0
    ELSE IF TokenAt(s, q) # 0 THEN q + TokenAt(s, q)
    ELSE LastToken(s, lo, q - 1)

\* \n{2}.*(token) starting at p: the index just after the match, 0 on failure.
\* .* stays on the line and gives back until the last token of the line.
BodyEnd(s, p) ==
    IF ~(p + 1 <= Len(s) /\ s[p] = LINESEP /\ s[p + 1] = LINESEP) THEN 0
    ELSE LastToken(s, p + 2, IndexOf(s, LINESEP, p + 2) - 1)

\* The whole pattern anchored at i: the index just after the match, 0 on failure.
RECURSIVE MatchAt(_, _)
RECURSIVE FirstOf(_, _, _)

\* After one header group ended at p: one more group if it matches, else the body.
AfterGroup(s, p) ==
    LET more == MatchAt(s, p)
    IN IF more # 0 THEN more ELSE BodyEnd(s, p)

\* The alternatives of one group in the order re tries them: per header end,
\* with the optional \n taken, then without it.
FirstOf(s, ends, k) ==
    IF k > Len(ends) THEN 0
    ELSE LET h == ends[k]
             withNl == IF h <= Len(s) /\ s[h] = LINESEP THEN AfterGroup(s, h + 1) ELSE 0
         IN IF withNl # 0 THEN withNl
            ELSE LET without == AfterGroup(s, h)
                 IN IF without # 0 THEN without ELSE FirstOf(s, ends, k + 1)

MatchAt(s, i) == FirstOf(s, HeaderEnds(s, i), 1)

NoMatch == [start |-> -1, end |-> -1]

\* re.finditer's next step: the leftmost match starting at or after the 0-based
\* offset from, as [start, end] (0-based, end exclusive), or NoMatch.
RECURSIVE SearchFrom(_, _)
SearchFrom(s, from) ==
    LET opens == {i \in (from + 1)..Len(s) : s[i] = LBR}
    IN IF opens = {} THEN NoMatch
       ELSE LET i == Min(opens)
                e == MatchAt(s, i)
            IN IF e # 0 THEN [start |-> i - 1, end |-> e - 1]
               ELSE SearchFrom(s, i)

(***************************************************************************)
(* str_to_date, str_to_time and int()                                      *)
(***************************************************************************)
Digits == <<"0","1","2","3","4","5","6","7","8","9">>

IsDigit(c) == \E i \in 1..10 : Digits[i] = c
DigitVal(c) == (CHOOSE i \in 1..10 : Digits[i] = c) - 1

\* str.strip(): what int() does to its argument first.
Strip(s) ==
    IF \A i \in 1..Len(s) : IsSpace(s[i]) THEN <<>>
    ELSE SubSeq(s, Min({i \in 1..Len(s) : ~IsSpace(s[i])}),
                   Max({i \in 1..Len(s) : ~IsSpace(s[i])}))

RECURSIVE DigitsValue(_, _, _)
DigitsValue(s, k, acc) ==
    IF k > Len(s) THEN acc
    ELSE IF s[k] = "_" THEN DigitsValue(s, k + 1, acc)
    ELSE DigitsValue(s, k + 1, acc * 10 + DigitVal(s[k]))

\* The digits of an int literal: single underscores are allowed between digits.
WellFormed(d) ==
    /\ Len(d) >= 1
    /\ \A i \in 1..Len(d) : IsDigit(d[i]) \/ d[i] = "_"
    /\ IsDigit(d[1]) /\ IsDigit(d[Len(d)])
    /\ \A i \in 1..(Len(d) - 1) : ~(d[i] = "_" /\ d[i + 1] = "_")

IntOfDigits(negative, d) ==
    IF ~WellFormed(d) THEN [ok |-> FALSE, v |-> 0]
    ELSE [ok |-> TRUE, v |-> IF negative THEN 0 - DigitsValue(d, 1, 0)
                             ELSE DigitsValue(d, 1, 0)]

\* int() of a stripped text: one optional sign, then the digits.
IntOfStripped(t) ==
    IF Len(t) >= 1 /\ t[1] \in {"+", "-"}
    THEN IntOfDigits(t[1] = "-", SubSeq(t, 2, Len(t)))
    ELSE IntOfDigits(FALSE, t)

\* int(s), base 10.  [ok, v]; ok = FALSE is ValueError.
ParseInt(s) == IntOfStripped(Strip(s))

\* [int(part) for part in parts]
ParseAll(parts) == [i \in 1..Len(parts) |-> ParseInt(parts[i])]

IsLeap(y) == (y % 4 = 0 /\ y % 100 # 0) \/ y % 400 = 0

DaysInMonth(y, m) ==
    IF m = 2 THEN (IF IsLeap(y) THEN 29 ELSE 28)
    ELSE IF m \in {4, 6, 9, 11} THEN 30 ELSE 31

\* datetime(year, month, day) accepts the arguments.
ValidDate(y, m, d) ==
    /\ y >= 1 /\ y <= 9999
    /\ m >= 1 /\ m <= 12
    /\ d >= 1 /\ d <= DaysInMonth(y, m)

\* time(hour, min, sec) accepts the arguments.
ValidTime(h, m, s) ==
    /\ h >= 0 /\ h <= 23
    /\ m >= 0 /\ m <= 59
    /\ s >= 0 /\ s <= 59

\* Lines 19-24 once the parts are cut.  [ok, v]: ok = FALSE stands for the
\* ValueError raised by int(), by the datetime constructor or by line 24.
DateOfParts(date_parts) ==
    IF \E i \in 1..Len(date_parts) : ~date_parts[i].ok
    THEN [ok |-> FALSE, v |-> <<>>]
    ELSE IF Len(date_parts) = 3
              /\ ValidDate(date_parts[1].v, date_parts[2].v, date_parts[3].v)
    THEN [ok |-> TRUE,
          v |-> [year |-> date_parts[1].v, month |-> date_parts[2].v,
                 day |-> date_parts[3].v]]
    ELSE [ok |-> FALSE, v |-> <<>>]

str_to_date(input_str) == DateOfParts(ParseAll(Split(input_str, <<".">>)))

\* Lines 31-36 once the parts are cut.
TimeOfParts(time_parts) ==
    IF \E i \in 1..Len(time_parts) : ~time_parts[i].ok
    THEN [ok |-> FALSE, v |-> <<>>]
    ELSE IF Len(time_parts) = 3
              /\ ValidTime(time_parts[1].v, time_parts[2].v, time_parts[3].v)
    THEN [ok |-> TRUE,
          v |-> [hour |-> time_parts[1].v, minute |-> time_parts[2].v,
                 second |-> time_parts[3].v]]
    ELSE [ok |-> FALSE, v |-> <<>>]

str_to_time(input_str) == TimeOfParts(ParseAll(Split(input_str, <<":">>)))

(***************************************************************************)
(* ChessGame: the annotated schema and __init__                            *)
(***************************************************************************)
\* attr: the attribute; key: its name as text (the dict key); type: the annotation.
Schema == <<
    [attr |-> "event",       key |-> <<"e","v","e","n","t">>,                         type |-> "str"],
    [attr |-> "site",        key |-> <<"s","i","t","e">>,                             type |-> "str"],
    [attr |-> "white",       key |-> <<"w","h","i","t","e">>,                         type |-> "str"],
    [attr |-> "black",       key |-> <<"b","l","a","c","k">>,                         type |-> "str"],
    [attr |-> "result",      key |-> <<"r","e","s","u","l","t">>,                     type |-> "str"],
    [attr |-> "eco",         key |-> <<"e","c","o">>,                                 type |-> "str"],
    [attr |-> "opening",     key |-> <<"o","p","e","n","i","n","g">>,                 type |-> "str"],
    [attr |-> "timecontrol", key |-> <<"t","i","m","e","c","o","n","t","r","o","l">>, type |-> "str"],
    [attr |-> "termination", key |-> <<"t","e","r","m","i","n","a","t","i","o","n">>, type |-> "str"],
    [attr |-> "moves",       key |-> <<"m","o","v","e","s">>,                         type |-> "str"],
    [attr |-> "utcdate",     key |-> <<"u","t","c","d","a","t","e">>,                 type |-> "datetime"],
    [attr |-> "utctime",     key |-> <<"u","t","c","t","i","m","e">>,                 type |-> "time"],
    [attr |-> "whiteelo",    key |-> <<"w","h","i","t","e","e","l","o">>,             type |-> "int"],
    [attr |-> "blackelo",    key |-> <<"b","l","a","c","k","e","l","o">>,             type |-> "int"] >>

Attrs == {Schema[i].attr : i \in 1..Len(Schema)}

EmptyDict == [x \in {} |-> <<>>]

\* Lines 85-97: the conversion of a raw (text) value to the annotated type.
\* [ok, v, msg]; ok = FALSE is the PgnParserException of line 97.
Convert(type, value) ==
    IF type = "datetime"
    THEN [ok |-> str_to_date(value).ok, v |-> str_to_date(value).v, msg |-> "cast"]
    ELSE IF type = "time"
    THEN [ok |-> str_to_time(value).ok, v |-> str_to_time(value).v, msg |-> "cast"]
    ELSE [ok |-> ParseInt(value).ok, v |-> ParseInt(value).v, msg |-> "cast"]

\* SetAttr taking a missing key for an empty text (a faulty variant).
SetAttr_MissingAsEmpty(input_dict, f) ==
    IF f.key \notin DOMAIN input_dict THEN [ok |-> TRUE, v |-> <<>>, msg |-> ""]
    ELSE IF f.type = "str" THEN [ok |-> TRUE, v |-> input_dict[f.key], msg |-> ""]
    ELSE Convert(f.type, input_dict[f.key])

\* One turn of the loop of __init__, for the annotation f: lines 79-97.
\* Every value of input_dict is text, so isinstance(value, type) holds exactly
\* for the str annotations.  [ok, v, msg]; ok = FALSE is a PgnParserException.
SetAttr(input_dict, f) ==
    IF f.key \in DOMAIN input_dict /\ f.type = "str"
    THEN [ok |-> TRUE, v |-> input_dict[f.key], msg |-> ""]
    ELSE IF f.key \notin DOMAIN input_dict
    THEN [ok |-> FALSE, v |-> <<>>, msg |-> "not found"]
    ELSE Convert(f.type, input_dict[f.key])

\* InitLoop going on after a failed turn, the attribute left unset (a faulty
\* variant).
RECURSIVE InitLoop_SkipFailed(_, _, _, _)
InitLoop_SkipFailed(input_dict, k, self, r) ==
    IF k = Len(Schema)
    THEN [kind |-> "game",
          game |-> IF r.ok THEN (Schema[k].attr :> r.v) @@ self ELSE self]
    ELSE InitLoop_SkipFailed(input_dict, k + 1,
                             IF r.ok THEN (Schema[k].attr :> r.v) @@ self ELSE self,
                             SetAttr(input_dict, Schema[k + 1]))

\* The loop of __init__ at its k-th annotation, r being what that turn did;
\* self holds the attributes set before it.
RECURSIVE InitLoop(_, _, _, _)
InitLoop(input_dict, k, self, r) ==
    IF ~r.ok
    THEN [kind |-> "PgnParserException", msg |-> r.msg, attr |-> Schema[k].attr]
    ELSE IF k = Len(Schema)
    THEN [kind |-> "game", game |-> (Schema[k].attr :> r.v) @@ self]
    ELSE InitLoop(input_dict, k + 1, (Schema[k].attr :> r.v) @@ self,
                  SetAttr(input_dict, Schema[k + 1]))

ChessGame(input_dict) == InitLoop(input_dict, 1, EmptyDict, SetAttr(input_dict, Schema[1]))

(***************************************************************************)
(* PgnParser.pgn_to_chessgame                                              *)
(***************************************************************************)
Malformed(header) ==
    \/ ~StartsWith(header, LBR)
    \/ ~EndsWith(header, RBR)
    \/ Len(Split(Trim1(header), <<" ", QUOTE>>)) # 2

\* UpdateDict keeping the value a name already has (a faulty variant).
UpdateDict_FirstWins(pgn_dict, split_header) ==
    pgn_dict @@ (Lower(split_header[1]) :> RStrip(split_header[2], QUOTE))

\* Lines 301-303.
UpdateDict(pgn_dict, split_header) ==
    (Lower(split_header[1]) :> RStrip(split_header[2], QUOTE)) @@ pgn_dict

\* The header loop from the k-th line on: the dict, or the first malformed line.
RECURSIVE HeaderLoop(_, _, _)
HeaderLoop(lines, k, pgn_dict) ==
    IF k > Len(lines) THEN [ok |-> TRUE, dict |-> pgn_dict]
    ELSE IF Malformed(lines[k]) THEN [ok |-> FALSE, dict |-> pgn_dict]
    ELSE HeaderLoop(lines, k + 1,
                    UpdateDict(pgn_dict, Split(Trim1(lines[k]), <<" ", QUOTE>>)))

\* Lines 305-306, after the header loop hl.
GameOfHeaders(hl, moves) ==
    IF ~hl.ok
    THEN [kind |-> "PgnParserException", msg |-> "malformed header", attr |-> ""]
    ELSE ChessGame((<<"m","o","v","e","s">> :> moves) @@ hl.dict)

\* GameOfParts raising a plain Exception for a wrong part count (a faulty
\* variant).
GameOfParts_PlainException(split_pgn) ==
    IF Len(split_pgn) # 2
    THEN [kind |-> "Exception", msg |-> "2 parts", attr |-> ""]
    ELSE GameOfHeaders(HeaderLoop(Split(split_pgn[1], <<LINESEP>>), 1, EmptyDict),
                       split_pgn[2])

\* Lines 289-306, after the split.
GameOfParts(split_pgn) ==
    IF Len(split_pgn) < 2
    THEN [kind |-> "IndexError", msg |-> "split_pgn[1]", attr |-> ""]
    ELSE IF Len(split_pgn) # 2
    THEN [kind |-> "PgnParserException", msg |-> "2 parts", attr |-> ""]
    ELSE GameOfHeaders(HeaderLoop(Split(split_pgn[1], <<LINESEP>>), 1, EmptyDict),
                       split_pgn[2])

\* [kind |-> "game", game] when a ChessGame is returned, otherwise the exception
\* raised: PgnParserException (with msg, attr) or IndexError.
pgn_to_chessgame(pgn_string) == GameOfParts(Split(pgn_string, PGN_DELIM))

(***************************************************************************)
(* Source texts: records in the shape of the Lichess files the pattern is  *)
(* written for ([Name "Value"] lines, a blank line, one line of moves      *)
(* ending in the result, a blank line).                                    *)
(***************************************************************************)
HeaderNames == <<
    <<"E","v","e","n","t">>,
    <<"S","i","t","e">>,
    <<"W","h","i","t","e">>,
    <<"B","l","a","c","k">>,
    <<"R","e","s","u","l","t">>,
    <<"E","C","O">>,
    <<"O","p","e","n","i","n","g">>,
    <<"T","i","m","e","C","o","n","t","r","o","l">>,
    <<"T","e","r","m","i","n","a","t","i","o","n">>,
    <<"U","T","C","D","a","t","e">>,
    <<"U","T","C","T","i","m","e">>,
    <<"W","h","i","t","e","E","l","o">>,
    <<"B","l","a","c","k","E","l","o">> >>

\* The values of a valid record; w is the value of White, which tells records apart.
Values(w) == <<
    <<"r">>, <<"s">>, w, <<"b">>, <<"1","-","0">>, <<"B","0","1">>, <<"o">>, <<"3","0","0">>, <<"n">>,
    <<"2","0","1","3",".","0","1",".","0","1">>,
    <<"1","2",":","0","0",":","0","0">>,
    <<"1","5","0","0">>, <<"1","4","9","0">> >>

HeaderLine(name, value) == <<LBR>> \o name \o <<" ", QUOTE>> \o value \o <<QUOTE, RBR>>

RECURSIVE Join(_, _)
Join(parts, sep) ==
    IF Len(parts) = 0 THEN <<>>
    ELSE IF Len(parts) = 1 THEN parts[1]
    ELSE parts[1] \o sep \o Join(Tail(parts), sep)

\* A record: the header lines hs, the blank line, the moves.
Block(hs, moves) == Join(hs, <<LINESEP>>) \o PGN_DELIM \o moves

HeaderLines(vals) == [i \in 1..Len(HeaderNames) |-> HeaderLine(HeaderNames[i], vals[i])]

\* seq without its k-th element
Without(seq, k) == SubSeq(seq, 1, k - 1) \o SubSeq(seq, k + 1, Len(seq))

Moves == <<"e","4"," ","1","-","0">>

Letters == <<"a", "b", "c", "d">>

\* The k-th record of a source, of the given kind:
\*   ok      a valid record (White is the k-th letter)
\*   nosite  the same record without its Site header
\*   short   a one-header record, [x "y"] and the result
\*   junk    JunkLen characters that hold no header and no result
GameText(kind, k) ==
    IF kind = "ok" THEN Block(HeaderLines(Values(<<Letters[k]>>)), Moves)
    ELSE IF kind = "nosite" THEN Block(Without(HeaderLines(Values(<<Letters[k]>>)), 2), Moves)
    ELSE IF kind = "short" THEN Block(<<HeaderLine(<<"x">>, <<"y">>)>>, <<"1","-","0">>)
    ELSE [i \in 1..JunkLen |-> IF i % 8 = 0 THEN LINESEP ELSE "x"]

RECURSIVE TextFrom(_, _)
TextFrom(kinds, k) ==
    IF k > Len(kinds) THEN <<>>
    ELSE GameText(kinds[k], k) \o PGN_DELIM \o TextFrom(kinds, k + 1)

\* The file: every record followed by a blank line.
Text(kinds) == TextFrom(kinds, 1)

Damaged == {"nosite", "short", "junk"}

\* The files: 1..MaxGames valid records, at most one of them replaced by a
\* damaged one.
Corpora ==
    UNION {{[i \in 1..n |-> "ok"]}
           \cup {[i \in 1..n |-> IF i = k THEN d ELSE "ok"] : k \in 1..n, d \in Damaged}
           : n \in 1..MaxGames}

(***************************************************************************)
(* PgnParser.parse_games                                                   *)
(***************************************************************************)
VARIABLES
    corpus,               \* the kinds of the records the file was written from
    src,                  \* the file's text
    buffer_size,          \* self.buffer_size
    pos,                  \* f's position: characters read so far
    pc,                   \* where the generator stands: read, scan, done, raised
    raised,               \* the exception that ended the generator ("" while none)
    chunk_count,          \* self.chunk_count
    chunk_pos,            \* self.chunk_pos
    current_line,         \* self.current_line
    leftover,
    data,
    it,                   \* the iterator of re.finditer: the match it gives next
                          \* (data never changes, so it is settled), or NoMatch
    match,                \* the local match: Unbound until the for loop binds it
    valid_games_count,
    invalid_games_count,
    yielded,              \* the ChessGames the consumer has received, in order
    log,                  \* the logger.error records: [line, msg, attr]; block is
                          \* the index in blocks of the block the record is about
    blocks,               \* the blocks handed to pgn_to_chessgame: [start, end, text],
                          \* start and end being offsets in the file
    runs                  \* what the earlier calls of parse_games on this instance
                          \* gave: [yielded, lines, raised] each

vars == <<corpus, src, buffer_size, pos, pc, raised, chunk_count, chunk_pos,
          current_line, leftover, data, it, match, valid_games_count,
          invalid_games_count, yielded, log, blocks, runs>>

Unbound == [start |-> -2, end |-> -2]

\* bool(match) for a bound match: re.Match defines neither __bool__ nor __len__.
Truthy(m) == TRUE

max_data_size == buffer_size * 2

\* __init__, then the start of parse_games on the opened file.
Init ==
    /\ corpus \in Corpora
    /\ src = Text(corpus)
    /\ buffer_size \in 1..(Len(src) + 1)
    /\ pos = 0
    /\ pc = "read"
    /\ raised = ""
    /\ chunk_count = 0
    /\ chunk_pos = [start |-> 1, end |-> 1]
    /\ current_line = 1
    /\ leftover = <<>>
    /\ data = <<>>
    /\ it = NoMatch
    /\ match = Unbound
    /\ valid_games_count = 0
    /\ invalid_games_count = 0
    /\ yielded = <<>>
    /\ log = <<>>
    /\ blocks = <<>>
    /\ runs = <<>>

\* ChunkPos with start left where it was (a faulty variant).
ChunkPos_StartKept(cp, chunk) ==
    [start |-> cp.start, end |-> cp.start + Count(chunk, LINESEP)]

\* Lines 252-253: chunk_pos once the chunk is read.
ChunkPos(cp, chunk) ==
    [start |-> cp.end, end |-> cp.end + Count(chunk, LINESEP)]

\* CurrentLine without the lines of the carried leftover (a faulty variant).
CurrentLine_NoLeftover(chunk_start, left) == chunk_start

\* Line 256: the line of the window's first character, chunk_start being
\* chunk_pos['start'].
CurrentLine(chunk_start, left) == chunk_start - Count(left, LINESEP)

\* Lines 264-265: the line the match m of the window d starts on.
MatchPos(line, d, m) == line + Count(Take(d, m.start), LINESEP)

\* NewLeftover cut at the start of the last match (a faulty variant).
NewLeftover_FromStart(d, m) == Drop(d, m.start)

\* Line 270: data[match.end():]
NewLeftover(d, m) == Drop(d, m.end)

\* Read returning half of the characters asked for (a faulty variant).
Read_Half(text, p, size) ==
    SubSeq(text, p + 1, IF p + (size + 1) \div 2 < Len(text)
                        THEN p + (size + 1) \div 2 ELSE Len(text))

\* f.read(size) at the position p: the next size characters, fewer at the end.
Read(text, p, size) ==
    SubSeq(text, p + 1, IF p + size < Len(text) THEN p + size ELSE Len(text))

\* f.read(buffer_size) returned a non-empty chunk: lines 251-258.
ReadChunk ==
    /\ pc = "read"
    /\ pos < Len(src)
    /\ \E chunk \in {Read(src, pos, buffer_size)} :
          /\ chunk_pos' = ChunkPos(chunk_pos, chunk)
          /\ data' = leftover \o chunk
          /\ current_line' = CurrentLine(ChunkPos(chunk_pos, chunk).start, leftover)
          /\ pos' = pos + Len(chunk)
          /\ it' = SearchFrom(leftover \o chunk, 0)
    /\ pc' = "scan"
    /\ UNCHANGED <<corpus, runs, src, buffer_size, raised, chunk_count, leftover, match,
                   valid_games_count, invalid_games_count, yielded, log, blocks>>

\* The block of the match m, as handed to pgn_to_chessgame.
Group(m) == SubSeq(data, m.start + 1, m.end)

\* Offset in the file of the window's first character.
WindowStart == pos - Len(data)

BlockOf(m) == [start |-> WindowStart + m.start, end |-> WindowStart + m.end,
               text |-> Group(m)]

\* ScanMatch counting the match as valid before it is decoded (a faulty
\* variant).
ScanMatch_CountFirst ==
    /\ pc = "scan"
    /\ it # NoMatch
    /\ \E m \in {it} :
          /\ match' = m
          /\ it' = SearchFrom(data, m.end)
          /\ blocks' = Append(blocks, BlockOf(m))
          /\ valid_games_count' = valid_games_count + 1
          /\ \E r \in {pgn_to_chessgame(Group(m))} :
                IF r.kind = "game"
                THEN /\ yielded' = Append(yielded, r.game)
                     /\ UNCHANGED <<pc, raised, log, invalid_games_count>>
                ELSE IF r.kind = "PgnParserException"
                THEN /\ log' = Append(log,
                            [line |-> MatchPos(current_line, data, m),
                             msg |-> r.msg, attr |-> r.attr, block |-> Len(blocks) + 1])
                     /\ invalid_games_count' = invalid_games_count + 1
                     /\ UNCHANGED <<pc, raised, yielded>>
                ELSE /\ pc' = "raised"
                     /\ raised' = r.kind
                     /\ UNCHANGED <<log, invalid_games_count, yielded>>
    /\ UNCHANGED <<corpus, runs, src, buffer_size, pos, chunk_count, chunk_pos,
                   current_line, leftover, data>>

\* One turn of the for loop, lines 259-267: the next match is decoded; the
\* game is yielded and counted, a PgnParserException is logged and counted,
\* any other exception leaves the generator.
ScanMatch ==
    /\ pc = "scan"
    /\ it # NoMatch
    /\ \E m \in {it} :
          /\ match' = m
          /\ it' = SearchFrom(data, m.end)
          /\ blocks' = Append(blocks, BlockOf(m))
          /\ \E r \in {pgn_to_chessgame(Group(m))} :
                IF r.kind = "game"
                THEN /\ yielded' = Append(yielded, r.game)
                     /\ valid_games_count' = valid_games_count + 1
                     /\ UNCHANGED <<pc, raised, log, invalid_games_count>>
                ELSE IF r.kind = "PgnParserException"
                THEN /\ log' = Append(log,
                            [line |-> MatchPos(current_line, data, m),
                             msg |-> r.msg, attr |-> r.attr, block |-> Len(blocks) + 1])
                     /\ invalid_games_count' = invalid_games_count + 1
                     /\ UNCHANGED <<pc, raised, yielded, valid_games_count>>
                ELSE /\ pc' = "raised"
                     /\ raised' = r.kind
                     /\ UNCHANGED <<log, invalid_games_count, yielded, valid_games_count>>
    /\ UNCHANGED <<corpus, runs, src, buffer_size, pos, chunk_count, chunk_pos,
                   current_line, leftover, data>>

\* The for loop is exhausted: lines 269-277.
EndWindow ==
    /\ pc = "scan"
    /\ it = NoMatch
    /\ IF match = Unbound
       THEN /\ pc' = "raised"
            /\ raised' = "UnboundLocalError"
            /\ UNCHANGED <<leftover, chunk_count>>
       ELSE IF Truthy(match)
       THEN /\ leftover' = NewLeftover(data, match)
            /\ chunk_count' = chunk_count + 1
            /\ pc' = "read"
            /\ UNCHANGED raised
       ELSE IF Len(data) + Len(leftover) > max_data_size
       THEN /\ pc' = "raised"
            /\ raised' = "Increase the size of the buffer"
            /\ UNCHANGED <<leftover, chunk_count>>
       ELSE /\ leftover' = data
            /\ chunk_count' = chunk_count + 1
            /\ pc' = "read"
            /\ UNCHANGED raised
    /\ UNCHANGED <<corpus, runs, src, buffer_size, pos, chunk_pos, current_line, data, it,
                   match, valid_games_count, invalid_games_count, yielded, log, blocks>>

\* Finish counting a non-empty leftover as a rejected record (a faulty variant).
Finish_CountLeftover ==
    /\ pc = "read"
    /\ pos = Len(src)
    /\ pc' = "done"
    /\ invalid_games_count' = invalid_games_count + (IF leftover # <<>> THEN 1 ELSE 0)
    /\ UNCHANGED <<corpus, runs, src, buffer_size, pos, raised, chunk_count, chunk_pos,
                   current_line, leftover, data, it, match, valid_games_count,
                   yielded, log, blocks>>

\* f.read returned '': the loop ends, the file is closed, the generator returns.
Finish ==
    /\ pc = "read"
    /\ pos = Len(src)
    /\ pc' = "done"
    /\ UNCHANGED <<corpus, runs, src, buffer_size, pos, raised, chunk_count, chunk_pos,
                   current_line, leftover, data, it, match, valid_games_count,
                   invalid_games_count, yielded, log, blocks>>

Next == ReadChunk \/ ScanMatch \/ EndWindow \/ Finish

Spec == Init /\ [][Next]_vars

\* parse_games called again on the same instance once a call has ended: the
\* locals of lines 244-247 are fresh and the file is opened anew (line 249),
\* while chunk_count, chunk_pos and current_line, set in __init__ only
\* (lines 166-170), are the ones the call before left.
Restart ==
    /\ pc \in {"done", "raised"}
    /\ Len(runs) < MaxRuns - 1
    /\ runs' = Append(runs, [yielded |-> yielded,
                             lines |-> [i \in 1..Len(log) |-> log[i].line],
                             raised |-> raised])
    /\ pos' = 0
    /\ pc' = "read"
    /\ raised' = ""
    /\ leftover' = <<>>
    /\ data' = <<>>
    /\ it' = NoMatch
    /\ match' = Unbound
    /\ valid_games_count' = 0
    /\ invalid_games_count' = 0
    /\ yielded' = <<>>
    /\ log' = <<>>
    /\ blocks' = <<>>
    /\ UNCHANGED <<corpus, src, buffer_size, chunk_count, chunk_pos, current_line>>

NextRerun == Next \/ Restart

SpecRerun == Init /\ [][NextRerun]_vars

(***************************************************************************)
(* Two-record files for pgn_to_chessgame and ChessGame.__init__: the valid *)
(* record with one header edited, then a valid record; read in one chunk   *)
(* or in chunks of BuildChunk characters.                                  *)
(***************************************************************************)
Years == { <<"2","0","1","3">>, <<"2","0","1","2">>, <<"0">>, <<"1","0","0","0","0">>, <<"x">> }
Months == { <<"0","1">>, <<"0","2">>, <<"1","2">>, <<"1","3">>, <<"0">>, <<" ","2">> }
Days == { <<"0","1">>, <<"2","9">>, <<"3","0">>, <<"3","1">>, <<"3","2">>, <<"0">>, <<"+","1">> }
Hours == { <<"0","0">>, <<"1","2">>, <<"2","3">>, <<"2","4">>, <<"x">>, <<"-","1">> }
Minutes == { <<"0","0">>, <<"5","9">>, <<"6","0">>, <<"0","_","1">> }
Seconds == { <<"0","0">>, <<"5","9">>, <<"6","0">>, <<"_","1">> }

\* a.b.c, a.b, a and a.b.c.c for the delimiter d
Dotted(As, Bs, Cs, d) ==
    {Join(<<a, b, c>>, <<d>>) : a \in As, b \in Bs, c \in Cs}
    \cup {Join(<<a, b>>, <<d>>) : a \in As, b \in Bs}
    \cup As
    \cup {Join(<<a, b, b, b>>, <<d>>) : a \in As, b \in Bs}

DateTexts == Dotted(Years, Months, Days, ".") \cup Dotted(Years, Months, Days, "-")
TimeTexts == Dotted(Hours, Minutes, Seconds, ":") \cup Dotted(Hours, Minutes, Seconds, ".")
IntTexts == { <<"1","5","0","0">>, <<"0">>, <<"-","5">>, <<"+","5">>, <<" ","5"," ">>,
              <<"1","_","0">>, <<"1","_","_","0">>, <<"_","1">>, <<"1","_">>,
              <<"a","b","c">>, <<"1","5","a">>, <<"1",".","5">>, <<"-">>, <<" ">>,
              <<"1"," ","5">>, <<"+","-","5">> }

\* Whole header lines that are not of the plain [Name "Value"] shape.
OddLines == {
    <<"[","S","i","t","e","\t","\"","s","\"","]">>,
    <<"[","S","i","t","e"," ","\"","s","\"","]","[","S","i","t","e"," ","\"","t","\"","]">>,
    <<"[","S","i","t","e"," ","\"","s","\""," ","\"","t","\"","]">>,
    <<"[","S","i","\n","t","e"," ","\"","s","\"","]">>,
    <<"[","S","i","t","e"," ","\"","s","\n","\n","t","\"","]">>,
    <<"[","S","i","t","e","\n","\"","s","\"","]">>,
    <<"[","S","i","t","e"," "," ","\"","s","\"","]">>,
    <<"[","S","I","T","E"," ","\"","s"," ","\"","]">>,
    <<"[","S","i","t","e"," ","\"","]","\"","]">>,
    <<"[","S","i","t","e"," ","\"","s","\"","]"," ">>,
    <<"S","i","t","e"," ","\"","s","\"">>,
    <<"[","M","o","v","e","s"," ","\"","s","\"","]">> }

\* Bodies: two results on one line, text after the result, a result on the
\* second line only, a result on each of two lines, the result alone.
Bodies == {
    <<"e","4"," ","1","-","0"," ","e","5"," ","0","-","1">>,
    <<"e","4"," ","1","/","2","-","1","/","2"," ","x">>,
    <<"e","4","\n","e","5"," ","1","-","0">>,
    <<"e","4"," ","1","-","0","\n","e","5"," ","0","-","1">>,
    <<"1","-","0">> }

\* Header lines that repeat a name of the record, in another case or not.
RepeatLines == {
    <<"[","W","H","I","T","E"," ","\"","z","\"","]">>,
    <<"[","w","h","i","t","e","e","l","o"," ","\"","1","6","0","0","\"","]">>,
    <<"[","U","T","C","D","a","t","e"," ","\"","2","0","1","2",".","0","2",".","2","9","\"","]">> }

Edits ==
    {[edit |-> "value", slot |-> 10, text |-> v] : v \in DateTexts}
    \cup {[edit |-> "value", slot |-> 11, text |-> v] : v \in TimeTexts}
    \cup {[edit |-> "value", slot |-> i, text |-> v] : i \in {12, 13}, v \in IntTexts}
    \cup {[edit |-> "line", slot |-> i, text |-> l] : i \in {1, 2, 13}, l \in OddLines}
    \cup {[edit |-> "drop", slot |-> i, text |-> <<>>] : i \in 1..Len(HeaderNames)}
    \cup {[edit |-> "moves", slot |-> 0, text |-> b] : b \in Bodies}
    \cup {[edit |-> "insert", slot |-> i, text |-> l] :
             i \in 1..(Len(HeaderNames) + 1), l \in RepeatLines}

\* seq with x put before its k-th element
InsertAt(seq, k, x) == SubSeq(seq, 1, k - 1) \o <<x>> \o SubSeq(seq, k, Len(seq))

\* The header lines of the valid record after the edit e.
EditedLines(e) ==
    IF e.edit = "drop" THEN Without(HeaderLines(Values(<<"a">>)), e.slot)
    ELSE IF e.edit = "insert" THEN InsertAt(HeaderLines(Values(<<"a">>)), e.slot, e.text)
    ELSE [i \in 1..Len(HeaderNames) |->
            IF i # e.slot THEN HeaderLines(Values(<<"a">>))[i]
            ELSE IF e.edit = "value" THEN HeaderLine(HeaderNames[i], e.text)
            ELSE e.text]

\* The body of the record after the edit e.
EditedMoves(e) == IF e.edit = "moves" THEN e.text ELSE Moves

EditedText(e) ==
    Block(EditedLines(e), EditedMoves(e)) \o PGN_DELIM \o GameText("ok", 2) \o PGN_DELIM

InitBuild ==
    /\ corpus \in Edits
    /\ src = EditedText(corpus)
    /\ buffer_size \in {BuildChunk, Len(src)}
    /\ pos = 0
    /\ pc = "read"
    /\ raised = ""
    /\ chunk_count = 0
    /\ chunk_pos = [start |-> 1, end |-> 1]
    /\ current_line = 1
    /\ leftover = <<>>
    /\ data = <<>>
    /\ it = NoMatch
    /\ match = Unbound
    /\ valid_games_count = 0
    /\ invalid_games_count = 0
    /\ yielded = <<>>
    /\ log = <<>>
    /\ blocks = <<>>
    /\ runs = <<>>

SpecBuild == InitBuild /\ [][Next]_vars

(***************************************************************************)
(* pgn_to_chessgame called on its own, on raw blocks of 1..MaxParts parts   *)
(* joined by blank lines.                                                  *)
(***************************************************************************)
Pieces == {
    Join(HeaderLines(Values(<<"a">>)), <<LINESEP>>),
    HeaderLine(<<"x">>, <<"y">>),
    Moves,
    <<"x", "x">>,
    <<>> }

RawParts == UNION {[1..n -> Pieces] : n \in 1..MaxParts}

\* The parser is built; the caller holds the raw block src.
InitDecode ==
    /\ corpus \in RawParts
    /\ src = Join(corpus, PGN_DELIM)
    /\ buffer_size = Len(src) + 1
    /\ pos = 0
    /\ pc = "call"
    /\ raised = ""
    /\ chunk_count = 0
    /\ chunk_pos = [start |-> 1, end |-> 1]
    /\ current_line = 1
    /\ leftover = <<>>
    /\ data = <<>>
    /\ it = NoMatch
    /\ match = Unbound
    /\ valid_games_count = 0
    /\ invalid_games_count = 0
    /\ yielded = <<>>
    /\ log = <<>>
    /\ blocks = <<>>
    /\ runs = <<>>

\* pgn_to_chessgame(src): the game is returned to the caller (kept in
\* yielded), or the exception reaches it (its kind in raised, the reason of a
\* PgnParserException in log).
Decode ==
    /\ pc = "call"
    /\ \E r \in {pgn_to_chessgame(src)} :
          IF r.kind = "game"
          THEN /\ yielded' = <<r.game>>
               /\ pc' = "returned"
               /\ UNCHANGED <<raised, log>>
          ELSE /\ raised' = r.kind
               /\ pc' = "raised"
               /\ log' = IF r.kind = "PgnParserException"
                         THEN <<[line |-> 0, msg |-> r.msg, attr |-> r.attr, block |-> 0]>>
                         ELSE <<>>
               /\ UNCHANGED yielded
    /\ UNCHANGED <<corpus, runs, src, buffer_size, pos, chunk_count, chunk_pos, current_line,
                   leftover, data, it, match, valid_games_count, invalid_games_count,
                   blocks>>

NextDecode == Decode

SpecDecode == InitDecode /\ [][NextDecode]_vars

(***************************************************************************)
(* Properties.  What the documentation of the parser promises, stated on   *)
(* the runs of Spec (chunked reading) and SpecBuild (decoding, building).  *)
(***************************************************************************)
\* The generator has returned or raised.
Ended == pc \in {"done", "raised"}

\* The ChessGame a valid record of the source texts stands for, w being its
\* White header.
ExpectedGame(w) ==
    [event |-> <<"r">>, site |-> <<"s">>, white |-> <<w>>, black |-> <<"b">>,
     result |-> <<"1","-","0">>, eco |-> <<"B","0","1">>, opening |-> <<"o">>,
     timecontrol |-> <<"3","0","0">>, termination |-> <<"n">>, moves |-> Moves,
     utcdate |-> [year |-> 2013, month |-> 1, day |-> 1],
     utctime |-> [hour |-> 12, minute |-> 0, second |-> 0],
     whiteelo |-> 1500, blackelo |-> 1490]

\* The games of the valid records of the file kinds, in file order.
RECURSIVE ExpectedFrom(_, _)
ExpectedFrom(kinds, k) ==
    IF k > Len(kinds) THEN <<>>
    ELSE IF kinds[k] = "ok"
    THEN <<ExpectedGame(Letters[k])>> \o ExpectedFrom(kinds, k + 1)
    ELSE ExpectedFrom(kinds, k + 1)

AllValid == \A k \in 1..Len(corpus) : corpus[k] = "ok"

\* C1 (as documented): a file of N valid records, each followed by a blank
\* line, parsed with any buffer_size from 1 to the length of the file, yields
\* exactly those N records in file order and the generator returns normally.
\* The code does not do this: see C1_Lost and C1_Crash.
C1_Completeness ==
    (Ended /\ AllValid /\ buffer_size <= Len(src))
        => (pc = "done" /\ yielded = ExpectedFrom(corpus, 1))

\* The two ways the code departs from C1: the generator raises
\* UnboundLocalError at line 269 when the first window holds no match, and a
\* later window without a match is cut at the end offset of an older match.
C1_Crash == ~(AllValid /\ pc = "raised" /\ raised = "UnboundLocalError")
C1_Lost == ~(AllValid /\ pc = "done" /\ Len(yielded) < Len(corpus))

\* The starts of the terminal tokens of the file, and 0.
TokenStarts == {q \in 0..Len(src) : q = 0 \/ TokenAt(src, q) # 0}

\* The file has a run of more than 2 * buffer_size characters that holds no
\* terminal token, hence no match of the pattern: the run that starts right
\* after q is in the file and every token that starts in it ends after it.
LongRun ==
    \E q \in TokenStarts :
        /\ Len(src) - q > max_data_size
        /\ \A r \in TokenStarts :
              r > q => r + TokenAt(src, r) - 1 > q + max_data_size + 1

\* C2 (as documented): when the file holds a run longer than 2 * buffer_size
\* with no terminal token in it, the parse stops by raising the error
\* 'Increase the size of the buffer', at the start of the file as well as
\* after matched records.  The code never raises it: see C2_NeverRaised.
C2_OverflowFatal ==
    (Ended /\ LongRun) => (pc = "raised" /\ raised = "Increase the size of the buffer")

\* What holds instead of C2: the error of line 273 is never raised.
C2_NeverRaised == raised # "Increase the size of the buffer"

\* Runs over a long run: the crash at the start of the file, the silent
\* continuation after a matched record.
C2_CrashAtStart == ~(raised = "UnboundLocalError" /\ blocks = <<>> /\ LongRun)
C2_SilentAfterMatch == ~(pc = "done" /\ Len(blocks) >= 1 /\ LongRun)

\* The 1-based line of the file that holds the character at the offset off.
LineOf(off) == 1 + Count(Take(src, off), LINESEP)

\* C3: the line logged for a rejected record is the 1-based line of the file
\* on which the first header of the rejected block stands, whatever the
\* buffer_size and whichever window the block was found in.
C3_LineAccuracy ==
    \A i \in 1..Len(log) :
        /\ log[i].block \in 1..Len(blocks)
        /\ blocks[log[i].block].text[1] = LBR
        /\ src[blocks[log[i].block].start + 1] = LBR
        /\ log[i].line = LineOf(blocks[log[i].block].start)

\* A record was just rejected in a window that starts with carried lines.
C3_Witness ==
    /\ pc = "scan"
    /\ Len(log) >= 1
    /\ log[Len(log)].block = Len(blocks)
    /\ current_line < chunk_pos.start
    /\ log[Len(log)].line > current_line

\* One record of the file lacks a required header, the others are valid.
OneLacking ==
    \E k \in 1..Len(corpus) :
        /\ corpus[k] \in {"nosite", "short"}
        /\ \A j \in 1..Len(corpus) : j # k => corpus[j] = "ok"

RECURSIVE MatchesFrom(_, _)
MatchesFrom(d, m) ==
    IF m = NoMatch THEN <<>> ELSE <<m>> \o MatchesFrom(d, SearchFrom(d, m.end))

\* The blocks of the window just scanned are the last blocks decoded.
WindowDecoded(ms) ==
    /\ Len(blocks) >= Len(ms)
    /\ \A j \in 1..Len(ms) : blocks[Len(blocks) - Len(ms) + j] = BlockOf(ms[j])

\* C5: no failure of the decoder or of the builder (wrong part count,
\* malformed header, missing field, failed coercion) ends the generator: it
\* raises only before any block was decoded.  A rejection stops nothing:
\* every match of a scanned window was decoded, each block was yielded or
\* logged, and the generator returns only once the whole file is read.
C5_Containment ==
    /\ pc = "raised" => (blocks = <<>> /\ raised = "UnboundLocalError")
    /\ pc # "raised" => raised = ""
    /\ Len(log) > 0 => pc # "raised"
    /\ (pc = "read" /\ pos > 0) => WindowDecoded(MatchesFrom(data, SearchFrom(data, 0)))
    /\ pc \in {"read", "done"} => Len(blocks) = Len(yielded) + Len(log)
    /\ pc = "done" => pos = Len(src)

\* A block with three parts was rejected in the first chunk and the record
\* after it was yielded from the second.
C5_Witness ==
    /\ pc = "done"
    /\ chunk_count = 2
    /\ Len(log) = 1
    /\ log[1].msg = "2 parts"
    /\ log[1].block = 1
    /\ Len(yielded) = 1
    /\ yielded[1].white = <<"b">>

IsText(v) == v \in Seq(STRING)

IsDate(v) ==
    /\ DOMAIN v = {"year", "month", "day"}
    /\ v.year \in Int /\ v.month \in Int /\ v.day \in Int
    /\ ValidDate(v.year, v.month, v.day)

IsTime(v) ==
    /\ DOMAIN v = {"hour", "minute", "second"}
    /\ v.hour \in Int /\ v.minute \in Int /\ v.second \in Int
    /\ ValidTime(v.hour, v.minute, v.second)

\* The attribute a of the game g holds a value of the type annotated for it.
Typed(g, f) ==
    IF f.type = "str" THEN IsText(g[f.attr])
    ELSE IF f.type = "datetime" THEN IsDate(g[f.attr])
    ELSE IF f.type = "time" THEN IsTime(g[f.attr])
    ELSE g[f.attr] \in Int

\* C6: every yielded game has the 14 attributes of the schema, each of its
\* annotated type; a block is yielded or rejected, never both, and the record
\* "a" is not yielded once one of its headers is removed.
C6_Total ==
    /\ \A i \in 1..Len(yielded) :
          /\ DOMAIN yielded[i] = Attrs
          /\ \A k \in 1..Len(Schema) : Typed(yielded[i], Schema[k])
    /\ Len(yielded) + Len(log) <= Len(blocks)
    /\ corpus.edit = "drop" => \A i \in 1..Len(yielded) : yielded[i].white # <<"a">>

\* A record without one of its headers was rejected, the next one yielded.
C6_Witness ==
    /\ pc = "done"
    /\ corpus.edit = "drop"
    /\ Len(log) = 1
    /\ log[1].msg = "not found"
    /\ Len(yielded) = 1
    /\ DOMAIN yielded[1] = Attrs

\* C7 (as documented): whenever a chunk is read, the leftover carried into it
\* is at most 2 * buffer_size characters long.  The code lets it grow: the
\* size check of lines 272-273 is never reached.
C7_LeftoverBound ==
    (pc = "read" /\ pos < Len(src)) => Len(leftover) <= max_data_size

\* C8: the blocks handed to the decoder are substrings of the file, they do
\* not overlap and their offsets strictly increase; each was yielded or
\* rejected once.
C8_Blocks ==
    /\ \A i \in 1..Len(blocks) :
          /\ 0 <= blocks[i].start
          /\ blocks[i].start < blocks[i].end
          /\ blocks[i].end <= Len(src)
          /\ blocks[i].text = SubSeq(src, blocks[i].start + 1, blocks[i].end)
          /\ i > 1 => blocks[i - 1].end <= blocks[i].start
    /\ Len(blocks) = Len(yielded) + Len(log)
    /\ valid_games_count = Len(yielded)
    /\ invalid_games_count = Len(log)

\* Two blocks were decoded, the second in a later window than the first.
C8_Witness ==
    /\ Len(blocks) >= 2
    /\ blocks[1].end <= buffer_size
    /\ blocks[2].start >= buffer_size
    /\ chunk_count >= 1

\* The three parts of v cut at the delimiter d are numbers.
ThreeNumbers(v, d) ==
    /\ Len(Split(v, <<d>>)) = 3
    /\ \A i \in 1..3 : ParseInt(Split(v, <<d>>)[i]).ok

PartValue(v, d, i) == ParseInt(Split(v, <<d>>)[i]).v

GoodDate(v) ==
    /\ ThreeNumbers(v, ".")
    /\ ValidDate(PartValue(v, ".", 1), PartValue(v, ".", 2), PartValue(v, ".", 3))

GoodTime(v) ==
    /\ ThreeNumbers(v, ":")
    /\ ValidTime(PartValue(v, ":", 1), PartValue(v, ":", 2), PartValue(v, ":", 3))

\* The edited record was rejected for the attribute attr; the next was yielded.
RejectedFor(attr) ==
    /\ Len(log) = 1
    /\ log[1].msg = "cast"
    /\ log[1].attr = attr
    /\ log[1].block = 1
    /\ Len(yielded) = 1
    /\ yielded[1].white = <<"b">>

\* The edited record was yielded.
Accepted == Len(log) = 0 /\ Len(yielded) = 2 /\ yielded[1].white = <<"a">>

\* The edited record was rejected, for whatever reason; the next was yielded.
Rejected ==
    /\ Len(log) = 1
    /\ log[1].block = 1
    /\ Len(yielded) = 1
    /\ yielded[1].white = <<"b">>

\* C9 (as documented): on an otherwise valid record, an elo value that is not
\* a number is rejected with a reason naming whiteelo or blackelo; a UTCDate
\* value that does not split on '.' into three numbers forming a date of the
\* calendar is rejected ("2013-01-01" is), "2013.01.01" is accepted and gives
\* 1 January 2013; a UTCTime value that does not split on ':' into three
\* numbers in range is rejected.  The code departs from it for a value that
\* ends with a space: see C9_SpaceBeforeQuote.
C9_Coercion ==
    (corpus.edit = "value" /\ pc = "done")
        => /\ (corpus.slot = 12 /\ ~ParseInt(corpus.text).ok) => RejectedFor("whiteelo")
           /\ (corpus.slot = 13 /\ ~ParseInt(corpus.text).ok) => RejectedFor("blackelo")
           /\ (corpus.slot = 10 /\ ~GoodDate(corpus.text)) => Rejected
           /\ (corpus.slot = 10 /\ corpus.text = <<"2","0","1","3","-","0","1","-","0","1">>)
                 => Rejected
           /\ (corpus.slot = 10 /\ corpus.text = <<"2","0","1","3",".","0","1",".","0","1">>)
                 => (Accepted /\ yielded[1].utcdate = [year |-> 2013, month |-> 1, day |-> 1])
           /\ (corpus.slot = 11 /\ ~GoodTime(corpus.text)) => Rejected

\* The departure from C9: a header whose value ends with a space is cut in
\* three by line 297 and rejected as malformed, before any coercion.
C9_SpaceBeforeQuote ==
    ~(/\ pc = "done"
      /\ corpus.edit = "value"
      /\ corpus.slot = 12
      /\ corpus.text = <<" ">>
      /\ Len(log) = 1
      /\ log[1].msg = "malformed header")

\* What holds of the values that do not end with a space: the elo values are
\* accepted exactly when int() takes them, the dates and times exactly when
\* they split into three numbers that form a date or a time, with the value
\* built from the three numbers; the rejection names the attribute.
C9_WhenDecoded ==
    (corpus.edit = "value" /\ corpus.text[Len(corpus.text)] # " ")
        => /\ pc # "raised"
           /\ pc = "done" =>
                 /\ corpus.slot = 12 =>
                       IF ParseInt(corpus.text).ok
                       THEN Accepted /\ yielded[1].whiteelo = ParseInt(corpus.text).v
                       ELSE RejectedFor("whiteelo")
                 /\ corpus.slot = 13 =>
                       IF ParseInt(corpus.text).ok
                       THEN Accepted /\ yielded[1].blackelo = ParseInt(corpus.text).v
                       ELSE RejectedFor("blackelo")
                 /\ corpus.slot = 10 =>
                       IF GoodDate(corpus.text)
                       THEN /\ Accepted
                            /\ yielded[1].utcdate =
                                 [year |-> PartValue(corpus.text, ".", 1),
                                  month |-> PartValue(corpus.text, ".", 2),
                                  day |-> PartValue(corpus.text, ".", 3)]
                       ELSE RejectedFor("utcdate")
                 /\ corpus.slot = 11 =>
                       IF GoodTime(corpus.text)
                       THEN /\ Accepted
                            /\ yielded[1].utctime =
                                 [hour |-> PartValue(corpus.text, ":", 1),
                                  minute |-> PartValue(corpus.text, ":", 2),
                                  second |-> PartValue(corpus.text, ":", 3)]
                       ELSE RejectedFor("utctime")

\* C10: when the end of the file is reached with a non-empty leftover, the
\* generator returns normally: the leftover is not yielded, not logged, not
\* counted, and nothing is raised.
C10_Trailing ==
    [][(pc = "read" /\ pos = Len(src) /\ leftover # <<>>)
          => /\ pc' = "done"
             /\ raised' = ""
             /\ UNCHANGED <<yielded, log, valid_games_count, invalid_games_count>>]_vars

\* The generator returned with a leftover that holds a run of junk.
C10_Witness ==
    /\ pc = "done"
    /\ raised = ""
    /\ Len(leftover) > JunkLen
    /\ SearchFrom(leftover, 0) = NoMatch

\* The leftover the documentation gives for the scanned window d, ms being the
\* matches found in it.
DocumentedLeftover(d, ms) ==
    IF ms = <<>> THEN d ELSE Drop(d, ms[Len(ms)].end)

\* The window just scanned holds no match.
NoMatchWindow == pc = "scan" /\ it = NoMatch /\ SearchFrom(data, 0) = NoMatch

\* C11 (as documented): once a window is scanned, the new leftover is the
\* suffix of that window after the end of the last match found in it, and the
\* whole window when it holds no match, whatever the earlier windows held.
\* The code does this only for the windows that hold a match: see C11_Stale.
C11_Leftover ==
    [][(pc = "scan" /\ it = NoMatch)
          => leftover' = DocumentedLeftover(data, MatchesFrom(data, SearchFrom(data, 0)))]_vars

\* After a window without a match the leftover is a proper suffix of it: the
\* window was cut at the end offset of a match of an earlier window.
C11_Stale ==
    [][~(NoMatchWindow /\ pc' = "read" /\ leftover' # data)]_vars

\* What holds of the windows that hold a match.
C11_AfterLastMatch ==
    [][(pc = "scan" /\ it = NoMatch /\ SearchFrom(data, 0) # NoMatch)
          => /\ pc' = "read"
             /\ leftover' = DocumentedLeftover(data, MatchesFrom(data, SearchFrom(data, 0)))]_vars

\* C12 (as documented): a window without a match ends the parse only when it
\* is longer than 2 * buffer_size; a window without a match of at most
\* 2 * buffer_size characters, the first window included, is carried whole
\* into the next read and nothing is raised.  The code raises at the first
\* window without a match: see C12_FirstWindow.
C12_AbortCondition ==
    [][NoMatchWindow
          => /\ pc' = "raised" => Len(data) > max_data_size
             /\ Len(data) <= max_data_size => (pc' = "read" /\ leftover' = data)]_vars

\* A first window of one character is scanned, and the generator raises.
C12_FirstWindow ==
    [][~(NoMatchWindow /\ chunk_count = 0 /\ Len(data) = 1 /\ pc' = "raised")]_vars

\* C13: when the scan of a window starts, current_line is 1 plus the number
\* of newlines of the file before the window's first character, whatever the
\* buffer_size and whatever the windows before it held.
C13_CurrentLine ==
    pc = "scan" =>
        /\ current_line = LineOf(WindowStart)
        /\ chunk_pos.start = LineOf(WindowStart + Len(leftover))
        /\ chunk_pos.end = LineOf(pos)

\* A scan starts on a window that carries lines of a leftover, after a window
\* that held a match and at least two windows in all.
C13_Witness ==
    /\ pc = "scan"
    /\ chunk_count >= 2
    /\ Len(blocks) >= 1
    /\ 1 < current_line
    /\ current_line < chunk_pos.start

\* The ends of the terminal tokens of the text s.
TokenEnds(s) == {q + TokenAt(s, q) - 1 : q \in {r \in 1..Len(s) : TokenAt(s, r) # 0}}

\* The body up to its last terminal token.
DocumentedBody(s) == Take(s, Max(TokenEnds(s)))

\* C14 (as documented): after the headers and the blank line the body runs
\* over the text that follows, several lines of it as well, and ends at the
\* last terminal token before the next header block; moves is that text.
\* The code stops the body at the end of its first line: see C14_FirstLine.
C14_Body ==
    (corpus.edit = "moves" /\ Ended)
        => /\ pc = "done"
           /\ Len(yielded) = 2
           /\ yielded[1].white = <<"a">>
           /\ yielded[1].moves = DocumentedBody(corpus.text)

\* What holds instead: the record is matched only when the first line of the
\* body holds a terminal token, and moves ends at the last one on that line.
C14_FirstLine ==
    (corpus.edit = "moves" /\ pc = "done")
        => IF TokenEnds(Split(corpus.text, <<LINESEP>>)[1]) = {}
           THEN Len(yielded) = 1 /\ yielded[1].white = <<"b">> /\ log = <<>>
           ELSE /\ Len(yielded) = 2
                /\ yielded[1].moves = DocumentedBody(Split(corpus.text, <<LINESEP>>)[1])
                /\ yielded[1].moves = Drop(blocks[1].text, Len(blocks[1].text) - Len(yielded[1].moves))

\* The game the record "a" stands for once the line of the edit e is put
\* before its e.slot-th header: the repeated header counts when it comes after
\* the header of the record.
RepeatedGame(e) ==
    IF e.text[2] = "W"
    THEN (IF e.slot > 3 THEN [ExpectedGame("a") EXCEPT !.white = <<"z">>]
          ELSE ExpectedGame("a"))
    ELSE IF e.text[2] = "w"
    THEN (IF e.slot > 12 THEN [ExpectedGame("a") EXCEPT !.whiteelo = 1600]
          ELSE ExpectedGame("a"))
    ELSE (IF e.slot > 10
          THEN [ExpectedGame("a") EXCEPT !.utcdate = [year |-> 2012, month |-> 2, day |-> 29]]
          ELSE ExpectedGame("a"))

\* C18: when a header name occurs twice in a block, in any case of letters,
\* the record is built from the value of its last occurrence.
C18_LastWins ==
    (corpus.edit = "insert" /\ pc = "done")
        => /\ log = <<>>
           /\ Len(yielded) = 2
           /\ yielded[1] = RepeatedGame(corpus)

\* [WHITE "z"] after the last header of the record gave white = z.
C18_Witness ==
    /\ pc = "done"
    /\ corpus.edit = "insert"
    /\ corpus.slot = Len(HeaderNames) + 1
    /\ Len(yielded) = 2
    /\ yielded[1].white = <<"z">>
    /\ yielded[1].whiteelo = 1500

\* C15 (as documented): pgn_to_chessgame, on a raw block that the blank-line
\* delimiter does not cut in exactly two parts (no delimiter, or more than
\* one), raises the PgnParserException of the part count and nothing else.
\* The code raises IndexError for a block without delimiter: see C15_OnePart.
C15_PartCount ==
    (pc # "call" /\ Len(Split(src, PGN_DELIM)) # 2)
        => /\ pc = "raised"
           /\ raised = "PgnParserException"
           /\ Len(log) = 1
           /\ log[1].msg = "2 parts"

\* A block without delimiter: split_pgn[1] at line 290 raises IndexError
\* before the test of line 292.
C15_OnePart == ~(pc = "raised" /\ Len(corpus) = 1 /\ raised = "IndexError")

\* What holds of the blocks cut in three parts or more.
C15_ManyParts ==
    (pc # "call" /\ Len(Split(src, PGN_DELIM)) > 2)
        => /\ raised = "PgnParserException"
           /\ log[1].msg = "2 parts"

\* The chunks read so far: the windows completed (chunk_count) and the one
\* being scanned, or the one whose scan raised.
ChunksRead == chunk_count + (IF pc \in {"scan", "raised"} THEN 1 ELSE 0)

\* No more chunks were read than the file holds, no more blocks decoded than
\* the file has characters.
C16_Bounded ==
    /\ pos <= Len(src)
    /\ ChunksRead * buffer_size < Len(src) + buffer_size
    /\ Len(yielded) + Len(log) <= Len(src)
    /\ Len(blocks) <= Len(src)

\* Until the parse has ended, a step of it can be taken: a chunk or the end of
\* the file is read, a match is decoded or the window is closed.
C16_CanStep ==
    \/ Ended
    \/ pc = "read" /\ (pos < Len(src) \/ pos = Len(src))
    \/ pc = "scan" /\ (it # NoMatch \/ it = NoMatch)

\* A number that every step of the parse makes smaller: the characters left to
\* read count most, then the part of the window left to scan.
C16_Rank ==
    (Len(src) - pos) * (Len(src) + 3)
    + (IF pc = "scan"
       THEN 2 + (IF it = NoMatch THEN 0 ELSE Len(data) - it.start)
       ELSE IF pc = "read" THEN 1 ELSE 0)

\* C16: for every file and every positive buffer_size the parse ends, by
\* exhaustion or by an exception, after at most ceil(length / buffer_size)
\* chunk reads, and the records yielded and rejected are at most as many as
\* the file has characters: no step is ever stuck before the end, and every
\* step lowers a number that stays at or above 0.
C16_Terminates ==
    /\ [](C16_Bounded /\ C16_CanStep /\ C16_Rank >= 0)
    /\ [][C16_Rank' < C16_Rank]_vars

\* The parse ended after reading the file in more than two chunks, having
\* yielded and rejected records.
C16_Witness ==
    /\ pc = "done"
    /\ ChunksRead > 2
    /\ ChunksRead * buffer_size >= Len(src)
    /\ Len(yielded) >= 1
    /\ Len(log) >= 1

\* C17: when the parse ends by exhaustion, valid_games_count is the number
\* of games yielded, invalid_games_count the number of rejections logged,
\* their sum the number of blocks matched in all the windows, and chunk_count
\* the number of non-empty chunks read, ceil(length / buffer_size).
C17_Counters ==
    pc = "done" =>
        /\ valid_games_count = Len(yielded)
        /\ invalid_games_count = Len(log)
        /\ valid_games_count + invalid_games_count = Len(blocks)
        /\ chunk_count * buffer_size >= Len(src)
        /\ (chunk_count - 1) * buffer_size < Len(src)

\* A parse of three chunks or more ended having yielded and rejected.
C17_Witness ==
    /\ pc = "done"
    /\ valid_games_count >= 1
    /\ invalid_games_count >= 1
    /\ chunk_count >= 3

\* The line numbers of the rejections logged, in order.
LogLines == [i \in 1..Len(log) |-> log[i].line]

\* C19: a second complete run of parse_games on the same instance over the
\* same file yields the same records and logs the same rejection lines as
\* the first.
C19_Rerun ==
    (pc \in {"done", "raised"} /\ Len(runs) = 1) =>
        /\ yielded = runs[1].yielded
        /\ LogLines = runs[1].lines
        /\ raised = runs[1].raised

\* What holds: the records and the outcome of the second run are those of the
\* first, and each rejection line is off by the lines the first run read.
C19_Shifted ==
    (pc \in {"done", "raised"} /\ Len(runs) = 1) =>
        /\ yielded = runs[1].yielded
        /\ raised = runs[1].raised
        /\ Len(LogLines) = Len(runs[1].lines)
        /\ \A i \in 1..Len(log) :
               \E d \in 0..Count(src, LINESEP) : log[i].line = runs[1].lines[i] + d

\* A second run that logged a line the first run did not.
C19_Witness ==
    ~(pc = "done" /\ Len(runs) = 1 /\ Len(log) >= 1 /\ LogLines # runs[1].lines)

====
